---- MODULE Spec2Model ----
(***************************************************************************)
(* The YDB adapter of go-ycsb: package query (the eleven query builders    *)
(* and their render cache) and package ydb (the ycsb.DB operations that    *)
(* hand a request to the driver's retry helper).                           *)
(*                                                                         *)
(* Text.  A Go string the code compares, sorts or uppercases is a sequence *)
(* of one-character strings; Str turns it into a TLA+ string once it is    *)
(* only concatenated.  A rendered query is the sequence of its non-blank,  *)
(* trimmed lines (what splitAndSimplify of the tests sees).  The backquote *)
(* cannot be written in a TLA+ string: BQ stands for it.                   *)
(***************************************************************************)
EXTENDS Integers, Sequences, FiniteSets, TLC

VARIABLES
    queryTemplate,  \* package query: the parsed templates, by name
    queryCache,     \* package query: the render cache, key -> text
    ret,            \* package query: the last builder call and what it returned
    connName,       \* the database name of the driver connection, cc.Name()
    databasePath,   \* ydbDB.databasePath
    pc,             \* the adapter's position: new, running, idle, failed
    call,           \* the operation in progress and its inputs
    request,        \* the query.Request the operation built
    helperCalls,    \* invocations of retry.Do by the operation in progress
    attempts,       \* callback runs of the current retry.Do invocation
    driverLog,      \* the ExecContext/QueryContext calls, one entry per call
    cbErr,          \* what the callback returned last (none before it ran)
    delivered,      \* the result set the driver delivered to the last callback run
    vs,             \* queryRows' named result vs
    out,            \* what the operation returned, and what retry.Do returned to it
    ops,            \* operations begun since Create
    threads,        \* harness threads in a builder: where each is in renderMemo
    returned,       \* the builder calls of the threads that have returned
    calls           \* builder calls the threads have begun

vars == <<queryTemplate, queryCache, ret, connName, databasePath, pc, call, request,
          helperCalls, attempts, driverLog, cbErr, delivered, vs, out, ops,
          threads, returned, calls>>

queryVars == <<queryTemplate, queryCache, ret>>

adapterVars == <<connName, databasePath, pc, call, request, helperCalls, attempts,
                 driverLog, cbErr, delivered, vs, out, ops>>

threadVars == <<threads, returned, calls>>

-----------------------------------------------------------------------------
(* Bounds of the model. *)

MaxKeys == 2        \* keys in a key list
MaxLimit == 1       \* scan limits 0..MaxLimit in the builder calls
MaxFields == 3      \* fieldsCount 0..MaxFields in the builder calls
MaxCache == 1       \* entries of the render cache in the builder calls
MaxAttempts == 2    \* callback runs of one retry.Do invocation
MaxRows == 2        \* rows of a result set
MaxOps == 1         \* operations of the adapter after Create
IntBits == 6        \* width of Go's int and uint64, scaled down from 64
MaxThreads == 2     \* harness threads that call the builders concurrently
MaxCalls == 3       \* builder calls the threads begin, all together

-----------------------------------------------------------------------------
(* Strings as byte sequences. *)

\* The bytes the model uses, in ascending byte order.
ASCII ==
    << " ", "$", ",", "0", "1", "2", "3", "4", "5", "6", "7", "8", "9", ":",
       "<", ">", "?",
       "A", "B", "C", "D", "E", "F", "G", "H", "I", "J", "K", "L", "M",
       "N", "O", "P", "Q", "R", "S", "T", "U", "V", "W", "X", "Y", "Z",
       "_",
       "a", "b", "c", "d", "e", "f", "g", "h", "i", "j", "k", "l", "m",
       "n", "o", "p", "q", "r", "s", "t", "u", "v", "w", "x", "y", "z" >>

CodeOf == [c \in {ASCII[i] : i \in 1..Len(ASCII)} |->
              CHOOSE i \in 1..Len(ASCII) : ASCII[i] = c]

Code(c) == CodeOf[c]

BQ == "'"

RECURSIVE Str(_)
Str(cs) == IF cs = <<>> THEN "" ELSE Head(cs) \o Str(Tail(cs))

\* Go's string comparison: byte-wise, a proper prefix first.
RECURSIVE LexLess(_, _)
LexLess(a, b) ==
    IF b = <<>> THEN FALSE
    ELSE IF a = <<>> THEN TRUE
    ELSE IF Head(a) = Head(b) THEN LexLess(Tail(a), Tail(b))
    ELSE Code(Head(a)) < Code(Head(b))

LexLeq(a, b) == a = b \/ LexLess(a, b)

IsSorted(ss) == \A i \in 1..(Len(ss) - 1) : LexLeq(ss[i], ss[i + 1])

\* strings.ToUpper on ASCII: a..z become A..Z, every other byte is kept.
ToUpperChar(c) ==
    IF Code(c) >= Code("a") /\ Code(c) <= Code("z")
    THEN ASCII[Code(c) - Code("a") + Code("A")]
    ELSE c

ToUpperStr(s) == [i \in 1..Len(s) |-> ToUpperChar(s[i])]

RECURSIVE InsertSorted(_, _)
InsertSorted(s, sorted) ==
    IF sorted = <<>> THEN <<s>>
    ELSE IF LexLeq(s, Head(sorted)) THEN <<s>> \o sorted
    ELSE <<Head(sorted)>> \o InsertSorted(s, Tail(sorted))

\* sort.Strings: the ascending permutation of ss.
RECURSIVE SortStrings(_)
SortStrings(ss) ==
    IF ss = <<>> THEN <<>> ELSE InsertSorted(Head(ss), SortStrings(Tail(ss)))

\* strconv.Itoa for i >= 0.
Digit(d) == ASCII[Code("0") + d]

RECURSIVE Itoa(_)
Itoa(i) == IF i < 10 THEN <<Digit(i)>> ELSE Itoa(i \div 10) \o <<Digit(i % 10)>>

RECURSIVE Join(_, _)
Join(strs, sep) ==
    IF strs = <<>> THEN ""
    ELSE IF Len(strs) = 1 THEN Head(strs)
    ELSE Head(strs) \o sep \o Join(Tail(strs), sep)

Range(f) == {f[i] : i \in DOMAIN f}

SeqsUpTo(S, n) == UNION {[1..k -> S] : k \in 0..n}

-----------------------------------------------------------------------------
(* The driver's typed values (types.Value) and sugar.ToYdbParam. *)

Utf8 == <<"U", "t", "f", "8">>
Uint64 == <<"U", "i", "n", "t", "6", "4">>
String == <<"S", "t", "r", "i", "n", "g">>

ListOf(t) == <<"L", "i", "s", "t", "<">> \o t \o <<">">>
OptionalOf(t) == <<"O", "p", "t", "i", "o", "n", "a", "l", "<">> \o t \o <<">">>

RECURSIVE StructMembers(_)
StructMembers(fields) ==
    IF fields = <<>> THEN <<>>
    ELSE Head(fields).name \o <<":">> \o Head(fields).value.type
         \o (IF Len(fields) > 1 THEN <<",">> ELSE <<>>)
         \o StructMembers(Tail(fields))

StructOf(fields) ==
    <<"S", "t", "r", "u", "c", "t", "<">> \o StructMembers(fields) \o <<">">>

TextValue(s) == [type |-> Utf8, v |-> s]
Uint64Value(n) == [type |-> Uint64, v |-> n]
BytesValue(b) == [type |-> String, v |-> b]
NullableBytesValue(isNull, b) ==
    [type |-> OptionalOf(String), v |-> IF isNull THEN "NULL" ELSE b]
StructFieldValue(name, value) == [name |-> name, value |-> value]
StructValue(fields) == [type |-> StructOf(fields), v |-> fields]
ListValue(items) == [type |-> ListOf(items[1].type), v |-> items]

\* sql.Named
Named(name, value) == [Name |-> name, Value |-> value]

\* The Go values the builders bind.
GoString(s) == [kind |-> "string", v |-> s]
GoUint64(n) == [kind |-> "uint64", v |-> n]
GoStrings(ss) == [kind |-> "[]string", v |-> ss]
GoValue(val) == [kind |-> "types.Value", v |-> val]

\* sugar.ToYdbParam: the parameter is named $Name and typed after the Go value.
YdbType(value) ==
    CASE value.kind = "string" -> Utf8
      [] value.kind = "uint64" -> Uint64
      [] value.kind = "[]string" -> ListOf(Utf8)
      [] value.kind = "types.Value" -> value.v.type

ToYdbParam(arg) == [Name |-> <<"$">> \o arg.Name, Type |-> YdbType(arg.Value)]

key_ == <<"k", "e", "y">>
keys_ == <<"k", "e", "y", "s">>
limit_ == <<"l", "i", "m", "i", "t">>
values_ == <<"v", "a", "l", "u", "e", "s">>

-----------------------------------------------------------------------------
(* Package query: the embedded templates.  The text of a .yql file is not  *)
(* part of the sources; the file name stands for the text, and             *)
(* ExecuteTemplate gives the lines the package's tests expect of it.       *)

createTableQuery == "create_table.yql"
dropTableQuery == "drop_table.yql"
scanQuery == "scan.yql"
readQuery == "read.yql"
updateQuery == "update.yql"
deleteQuery == "delete.yql"
insertQuery == "insert.yql"
batchReadQuery == "batch_read.yql"
batchInsertQuery == "batch_insert.yql"
batchUpdateQuery == "batch_update.yql"
batchDeleteQuery == "batch_delete.yql"

\* The list init ranges over, in its order.
initList ==
    << createTableQuery, dropTableQuery, insertQuery, deleteQuery, updateQuery,
       readQuery, batchInsertQuery, batchUpdateQuery, batchDeleteQuery,
       batchReadQuery, scanQuery >>

\* init: queryTemplate.New(q).Parse(q) for every q of the list; a template
\* is named by its own text, so parsing the same text twice keeps one.
RECURSIVE ParseAll(_)
ParseAll(qs) == IF qs = <<>> THEN {} ELSE ParseAll(Tail(qs)) \cup {Head(qs)}

init == ParseAll(initList)

PragmaLine(data) == "PRAGMA TablePathPrefix(\"" \o data.TablePathPrefix \o "\");"

DeclareLines(data) == [i \in 1..Len(data.Declares) |-> Str(data.Declares[i]) \o ";"]

QuotedColumns(cols) == [i \in 1..Len(cols) |-> BQ \o Str(cols[i]) \o BQ]

SelectList(cols) == IF Len(cols) = 0 THEN "*" ELSE Join(QuotedColumns(cols), ", ")

FieldLines(cols) == [i \in 1..Len(cols) |-> BQ \o Str(cols[i]) \o BQ \o " Bytes,"]

Statement(q, data, cols) ==
    CASE q = createTableQuery ->
            <<"CREATE TABLE " \o data.TableName \o " (", "YCSB_KEY Text NOT NULL,">>
            \o FieldLines(cols) \o <<"PRIMARY KEY (YCSB_KEY)", ");">>
      [] q = dropTableQuery ->
            <<"DROP TABLE " \o data.TableName \o ";">>
      [] q = scanQuery ->
            <<"SELECT " \o SelectList(cols) \o " FROM " \o data.TableName
              \o " WHERE YCSB_KEY > $key LIMIT $limit;">>
      [] q = readQuery ->
            <<"SELECT " \o SelectList(cols) \o " FROM " \o data.TableName
              \o " WHERE YCSB_KEY = $key;">>
      [] q = batchReadQuery ->
            <<"SELECT " \o SelectList(cols) \o " FROM " \o data.TableName
              \o " WHERE YCSB_KEY IN $keys;">>
      [] q = updateQuery ->
            <<"UPSERT INTO " \o data.TableName \o " SELECT * FROM AS_TABLE($values);">>
      [] q = batchInsertQuery ->
            <<"UPSERT INTO " \o data.TableName \o " SELECT * FROM AS_TABLE($values);">>
      [] q = insertQuery ->
            <<"INSERT INTO " \o data.TableName \o " SELECT * FROM AS_TABLE($values);">>
      [] q = batchUpdateQuery ->
            <<"UPDATE " \o data.TableName \o " ON SELECT * FROM AS_TABLE($values);">>
      [] q = deleteQuery ->
            <<"DELETE FROM " \o data.TableName \o " WHERE YCSB_KEY = $key;">>
      [] q = batchDeleteQuery ->
            <<"DELETE FROM " \o data.TableName \o " WHERE YCSB_KEY IN $keys;">>

\* queryTemplate.ExecuteTemplate(&buf, query, data)
ExecuteTemplate(q, data) ==
    IF data.kind = "commonDataWithColumns"
    THEN <<PragmaLine(data.commonData)>> \o DeclareLines(data.commonData)
         \o Statement(q, data.commonData, data.Columns.s)
    ELSE <<PragmaLine(data)>> \o DeclareLines(data) \o Statement(q, data, <<>>)

-----------------------------------------------------------------------------
(* Package query: the render cache. *)

\* A variant of commonData with the two names in each other's place.
commonDataSwapped(tablePathPrefix, tableName, declares) ==
    [kind |-> "commonData", TablePathPrefix |-> tableName,
     TableName |-> tablePathPrefix, Declares |-> declares]

commonData(tablePathPrefix, tableName, declares) ==
    [kind |-> "commonData", TablePathPrefix |-> tablePathPrefix,
     TableName |-> tableName, Declares |-> declares]

commonDataWithColumns(common, columns) ==
    [kind |-> "commonDataWithColumns", commonData |-> common, Columns |-> columns]

\* fmt's %+v of a []string: the elements as they are, separated by a space.
FormatStrings(ss) == "[" \o Join([i \in 1..Len(ss) |-> Str(ss[i])], " ") \o "]"

FormatCommonData(d) ==
    "{TablePathPrefix:" \o d.TablePathPrefix \o " TableName:" \o d.TableName
    \o " Declares:" \o FormatStrings(d.Declares) \o "}"

FormatData(data) ==
    IF data.kind = "commonDataWithColumns"
    THEN "{commonData:" \o FormatCommonData(data.commonData)
         \o " Columns:" \o FormatStrings(data.Columns.s) \o "}"
    ELSE FormatCommonData(data)

\* fmt.Sprintf("%+v", cacheKey{query: query, data: data})
cacheKey(q, data) == "{query:" \o q \o " data:" \o FormatData(data) \o "}"

\* renderMemo: the cached text when the key is stored, else the rendered
\* text, which the deferred Store puts under the key.  ExecuteTemplate of a
\* name that was never parsed is an error, and renderMemo panics.
renderMemo(templates, cache, q, data) ==
    LET key == cacheKey(q, data) IN
    IF key \in DOMAIN cache
    THEN [s |-> cache[key], fromCache |-> TRUE, cache |-> cache,
          panic |-> FALSE, template |-> q, key |-> key]
    ELSE LET s == ExecuteTemplate(q, data) IN
         [s |-> s, fromCache |-> FALSE,
          cache |-> [k \in DOMAIN cache \cup {key} |->
                        IF k = key THEN s ELSE cache[k]],
          panic |-> q \notin templates, template |-> q, key |-> key]

render(templates, cache, q, data) == renderMemo(templates, cache, q, data)

-----------------------------------------------------------------------------
(* Package query: the builders.  A builder's result is the request (query, *)
(* args) and the effect of its render call on the cache.                   *)

DECLARE_ == <<"D", "E", "C", "L", "A", "R", "E", " ">>
AS_ == <<" ", "A", "S", " ">>

\* A variant of Declare with the two operands of the Sprintf exchanged.
DeclareSwapped(param) == DECLARE_ \o param.Type \o AS_ \o param.Name

Declare(param) == DECLARE_ \o param.Name \o AS_ \o param.Type

asDeclares(args) ==
    SortStrings([i \in 1..Len(args) |-> Declare(ToYdbParam(args[i]))])

\* A variant of asInterfaces whose loop keeps the last element only.
asInterfacesLast(in) == [i \in 1..Len(in) |-> in[Len(in)]]

asInterfaces(in) == [i \in 1..Len(in) |-> in[i]]

\* A []string: nil or not, and its elements.
Slice(isNil, s) == [isNil |-> isNil, s |-> s]
NilSlice == Slice(TRUE, <<>>)

sortStrings(columns) == [columns EXCEPT !.s = SortStrings(columns.s)]

toUpper(ss) == [ss EXCEPT !.s = [i \in 1..Len(ss.s) |-> ToUpperStr(ss.s[i])]]

NoArgs == <<>>

\* request.Query and request.Args
Query(r) == r.query
Args(r) == r.args

mkRequest(r, args) ==
    [query |-> r.s, args |-> args, cache |-> r.cache, fromCache |-> r.fromCache,
     panic |-> r.panic, template |-> r.template, key |-> r.key]

\* A variant of Update that renders the template of BatchInsert.
UpdateAsBatchInsert(T, cache, tablePathPrefix, tableName, values) ==
    LET args == <<Named(values_, GoValue(values))>> IN
    mkRequest(render(T, cache, batchInsertQuery,
                     commonData(tablePathPrefix, tableName, asDeclares(args))),
              asInterfaces(args))

Update(T, cache, tablePathPrefix, tableName, values) ==
    LET args == <<Named(values_, GoValue(values))>> IN
    mkRequest(render(T, cache, updateQuery,
                     commonData(tablePathPrefix, tableName, asDeclares(args))),
              asInterfaces(args))

\* A variant of Scan that renders the template of Read.
ScanAsRead(T, cache, tablePathPrefix, tableName, columns, key, limit) ==
    LET sorted == sortStrings(columns)
        args == <<Named(key_, GoString(key)), Named(limit_, GoUint64(limit))>>
    IN  mkRequest(render(T, cache, readQuery,
                     commonDataWithColumns(
                         commonData(tablePathPrefix, tableName, asDeclares(args)),
                         toUpper(sorted))),
                  asInterfaces(args))

Scan(T, cache, tablePathPrefix, tableName, columns, key, limit) ==
    LET sorted == sortStrings(columns)
        args == <<Named(key_, GoString(key)), Named(limit_, GoUint64(limit))>>
    IN  mkRequest(render(T, cache, scanQuery,
                     commonDataWithColumns(
                         commonData(tablePathPrefix, tableName, asDeclares(args)),
                         toUpper(sorted))),
                  asInterfaces(args))

BatchRead(T, cache, tablePathPrefix, tableName, columns, keys) ==
    LET sorted == sortStrings(columns)
        args == <<Named(keys_, GoStrings(keys))>>
    IN  mkRequest(render(T, cache, batchReadQuery,
                     commonDataWithColumns(
                         commonData(tablePathPrefix, tableName, asDeclares(args)),
                         toUpper(sorted))),
                  asInterfaces(args))

Read(T, cache, tablePathPrefix, tableName, columns, key) ==
    LET sorted == sortStrings(columns)
        args == <<Named(key_, GoString(key))>>
    IN  mkRequest(render(T, cache, readQuery,
                     commonDataWithColumns(
                         commonData(tablePathPrefix, tableName, asDeclares(args)),
                         toUpper(sorted))),
                  asInterfaces(args))

BatchUpdate(T, cache, tablePathPrefix, tableName, values) ==
    LET args == <<Named(values_, GoValue(values))>> IN
    mkRequest(render(T, cache, batchUpdateQuery,
                     commonData(tablePathPrefix, tableName, asDeclares(args))),
              asInterfaces(args))

BatchInsert(T, cache, tablePathPrefix, tableName, values) ==
    LET args == <<Named(values_, GoValue(values))>> IN
    mkRequest(render(T, cache, batchInsertQuery,
                     commonData(tablePathPrefix, tableName, asDeclares(args))),
              asInterfaces(args))

\* A variant of Insert that renders the template of Update.
InsertAsUpdate(T, cache, tablePathPrefix, tableName, values) ==
    LET args == <<Named(values_, GoValue(values))>> IN
    mkRequest(render(T, cache, updateQuery,
                     commonData(tablePathPrefix, tableName, asDeclares(args))),
              asInterfaces(args))

Insert(T, cache, tablePathPrefix, tableName, values) ==
    LET args == <<Named(values_, GoValue(values))>> IN
    mkRequest(render(T, cache, insertQuery,
                     commonData(tablePathPrefix, tableName, asDeclares(args))),
              asInterfaces(args))

BatchDelete(T, cache, tablePathPrefix, tableName, keys) ==
    LET args == <<Named(keys_, GoStrings(keys))>> IN
    mkRequest(render(T, cache, batchDeleteQuery,
                     commonData(tablePathPrefix, tableName, asDeclares(args))),
              asInterfaces(args))

Delete(T, cache, tablePathPrefix, tableName, key) ==
    LET args == <<Named(key_, GoString(key))>> IN
    mkRequest(render(T, cache, deleteQuery,
                     commonData(tablePathPrefix, tableName, asDeclares(args))),
              asInterfaces(args))

DropTable(T, cache, tablePathPrefix, tableName) ==
    mkRequest(render(T, cache, dropTableQuery,
                     commonData(tablePathPrefix, tableName, <<>>)),
              NoArgs)

\* A variant of FieldColumns whose indices start at one.
FieldColumnsFromOne(fieldsCount) ==
    [i \in 1..fieldsCount |-> <<"F", "I", "E", "L", "D">> \o Itoa(i)]

FieldColumns(fieldsCount) ==
    [i \in 1..fieldsCount |-> <<"F", "I", "E", "L", "D">> \o Itoa(i - 1)]

CreateTable(T, cache, tablePathPrefix, tableName, fieldsCount) ==
    mkRequest(render(T, cache, createTableQuery,
                     commonDataWithColumns(
                         commonData(tablePathPrefix, tableName, <<>>),
                         Slice(FALSE, FieldColumns(fieldsCount)))),
              NoArgs)

-----------------------------------------------------------------------------
(* The inputs of the builder calls: each call set varies one input at a    *)
(* time around a default call.                                             *)

TablePathPrefixes == {"/local", "/db"}
TableNames == {"usertable", "ycsbtable"}
Targets == TablePathPrefixes \X TableNames
QKeys == {"", "k1"}
KeyLists == SeqsUpTo(QKeys, MaxKeys) \ {<<>>}
Limits == 0..MaxLimit

\* Column lists: out of order, of both letter cases, with a space in a name.
ColumnLists ==
    { <<>>,
      << <<"a">> >>,
      << <<"b">>, <<"a">> >>,
      << <<"a", "b">>, <<"a">> >>,
      << <<"a">>, <<"B">> >>,
      << <<"B", " ", "a">> >> }

ColumnSlices == {NilSlice} \cup {Slice(FALSE, cl) : cl \in ColumnLists}

ReadCalls ==
    {<<tg[1], tg[2], NilSlice, "k1">> : tg \in Targets}
    \cup {<<"/local", "usertable", c, k>> : c \in ColumnSlices, k \in QKeys}

ScanCalls ==
    {<<tg[1], tg[2], NilSlice, "k1", MaxLimit>> : tg \in Targets}
    \cup {<<"/local", "usertable", c, "k1", MaxLimit>> : c \in ColumnSlices}
    \cup {<<"/local", "usertable", NilSlice, k, l>> : k \in QKeys, l \in Limits}

BatchReadCalls ==
    {<<tg[1], tg[2], NilSlice, <<"k1">> >> : tg \in Targets}
    \cup {<<"/local", "usertable", c, <<"k1">> >> : c \in ColumnSlices}
    \cup {<<"/local", "usertable", NilSlice, ks>> : ks \in KeyLists}

YCSB_KEY == <<"Y", "C", "S", "B", "_", "K", "E", "Y">>
FIELD0 == <<"F", "I", "E", "L", "D", "0">>

\* The value of the package's tests, and a one-row list as the adapter binds it.
TestValue ==
    ListValue(<< StructValue(<< StructFieldValue(key_, TextValue("")),
                                StructFieldValue(<<"v", "a", "l", "u", "e">>,
                                                 Uint64Value(0)) >>) >>)

QValues ==
    { TestValue,
      ListValue(<< StructValue(<< StructFieldValue(YCSB_KEY, TextValue("k1")),
                                  StructFieldValue(FIELD0, BytesValue("x")) >>) >>) }

\* The calls of the builders that bind $values.
ValuesCalls ==
    {<<tg[1], tg[2], TestValue>> : tg \in Targets}
    \cup {<<"/local", "usertable", v>> : v \in QValues}

DeleteCalls ==
    {<<tg[1], tg[2], "k1">> : tg \in Targets}
    \cup {<<"/local", "usertable", k>> : k \in QKeys}

BatchDeleteCalls ==
    {<<tg[1], tg[2], <<"k1">> >> : tg \in Targets}
    \cup {<<"/local", "usertable", ks>> : ks \in KeyLists}

\* fieldsCount 0..MaxFields, and one count with a two-digit index.
CreateTableCalls ==
    {<<tg[1], tg[2], MaxFields>> : tg \in Targets}
    \cup {<<"/local", "usertable", n>> : n \in 0..MaxFields \cup {11}}

-----------------------------------------------------------------------------
(* The state after package initialisation and before ydbCreator.Create. *)

EmptyCache == <<>>
Threads == 1..MaxThreads
Idle == [pc |-> "idle"]
NoCall == [op |-> "none"]
NoRequest == [query |-> <<>>, args |-> <<>>]
NoOut == [set |-> FALSE]
NoDelivery == [ok |-> FALSE]
NilRows == [isNil |-> TRUE, rows |-> <<>>]
Nil == "nil"

Init ==
    /\ queryTemplate = init
    /\ queryCache = EmptyCache
    /\ ret = NoCall
    /\ connName = ""
    /\ databasePath = ""
    /\ pc = "new"
    /\ call = NoCall
    /\ request = NoRequest
    /\ helperCalls = 0
    /\ attempts = 0
    /\ driverLog = <<>>
    /\ cbErr = "none"
    /\ delivered = NoDelivery
    /\ vs = NilRows
    /\ out = NoOut
    /\ ops = 0
    /\ threads = [t \in Threads |-> Idle]
    /\ returned = {}
    /\ calls = 0

-----------------------------------------------------------------------------
(* Package query called on its own: one action per public builder. *)

\* The builder call r is taken while the cache has room for what it stores.
Admit(r) ==
    /\ ~r.panic
    /\ r.fromCache \/ Cardinality(DOMAIN queryCache) < MaxCache

Returned(op, in, r) ==
    /\ Admit(r)
    /\ queryCache' = r.cache
    /\ ret' = [op |-> op, in |-> in, query |-> r.query, args |-> r.args,
               fromCache |-> r.fromCache, template |-> r.template]
    /\ UNCHANGED <<queryTemplate, adapterVars, threadVars>>

CallRead ==
    \E c \in ReadCalls :
        Returned("Read",
                 [tablePathPrefix |-> c[1], tableName |-> c[2],
                  columns |-> c[3], key |-> c[4]],
                 Read(queryTemplate, queryCache, c[1], c[2], c[3], c[4]))

CallScan ==
    \E c \in ScanCalls :
        Returned("Scan",
                 [tablePathPrefix |-> c[1], tableName |-> c[2],
                  columns |-> c[3], key |-> c[4], limit |-> c[5]],
                 Scan(queryTemplate, queryCache, c[1], c[2], c[3], c[4], c[5]))

CallBatchRead ==
    \E c \in BatchReadCalls :
        Returned("BatchRead",
                 [tablePathPrefix |-> c[1], tableName |-> c[2],
                  columns |-> c[3], keys |-> c[4]],
                 BatchRead(queryTemplate, queryCache, c[1], c[2], c[3], c[4]))

CallInsert ==
    \E c \in ValuesCalls :
        Returned("Insert",
                 [tablePathPrefix |-> c[1], tableName |-> c[2], values |-> c[3]],
                 Insert(queryTemplate, queryCache, c[1], c[2], c[3]))

CallBatchInsert ==
    \E c \in ValuesCalls :
        Returned("BatchInsert",
                 [tablePathPrefix |-> c[1], tableName |-> c[2], values |-> c[3]],
                 BatchInsert(queryTemplate, queryCache, c[1], c[2], c[3]))

CallUpdate ==
    \E c \in ValuesCalls :
        Returned("Update",
                 [tablePathPrefix |-> c[1], tableName |-> c[2], values |-> c[3]],
                 Update(queryTemplate, queryCache, c[1], c[2], c[3]))

CallBatchUpdate ==
    \E c \in ValuesCalls :
        Returned("BatchUpdate",
                 [tablePathPrefix |-> c[1], tableName |-> c[2], values |-> c[3]],
                 BatchUpdate(queryTemplate, queryCache, c[1], c[2], c[3]))

CallDelete ==
    \E c \in DeleteCalls :
        Returned("Delete",
                 [tablePathPrefix |-> c[1], tableName |-> c[2], key |-> c[3]],
                 Delete(queryTemplate, queryCache, c[1], c[2], c[3]))

CallBatchDelete ==
    \E c \in BatchDeleteCalls :
        Returned("BatchDelete",
                 [tablePathPrefix |-> c[1], tableName |-> c[2], keys |-> c[3]],
                 BatchDelete(queryTemplate, queryCache, c[1], c[2], c[3]))

CallDropTable ==
    \E c \in Targets :
        Returned("DropTable",
                 [tablePathPrefix |-> c[1], tableName |-> c[2]],
                 DropTable(queryTemplate, queryCache, c[1], c[2]))

CallCreateTable ==
    \E c \in CreateTableCalls :
        Returned("CreateTable",
                 [tablePathPrefix |-> c[1], tableName |-> c[2], fieldsCount |-> c[3]],
                 CreateTable(queryTemplate, queryCache, c[1], c[2], c[3]))

NextQuery ==
    \/ CallRead
    \/ CallScan
    \/ CallBatchRead
    \/ CallInsert
    \/ CallBatchInsert
    \/ CallUpdate
    \/ CallBatchUpdate
    \/ CallDelete
    \/ CallBatchDelete
    \/ CallDropTable
    \/ CallCreateTable

SpecQuery == Init /\ [][NextQuery]_vars

-----------------------------------------------------------------------------
(* Package ydb: the driver as the adapter sees it.  retry.Do runs the      *)
(* callback zero or more times and returns nil after a run that returned   *)
(* nil, or an error; the database answers a query with column names and    *)
(* rows, or fails at any of the calls the callback makes.                  *)

DriverError == "err1"
Errors == {"err1", "err2"}

\* The column names of a result set: pairwise distinct.
ResultColumns == { <<"A">>, <<"B", "A">> }

\* The bytes of column j of row i of the result set of callback run a.
Cell(a, i, j) == <<a, i, j>>

ResultRow(a, i, cols) == [j \in 1..Len(cols) |-> Cell(a, i, j)]

\* What the driver does in one callback run: the call that fails (stage), or
\* ok; the columns; the n rows for which rows.Next() is true.  With stage
\* Scan, rows.Scan fails on row n.
Outcomes ==
    { [stage |-> st, cols |-> <<>>, n |-> 0] : st \in {"QueryContext", "Columns"} }
    \cup { [stage |-> st, cols |-> c, n |-> n] :
              st \in {"ok", "Err"}, c \in ResultColumns, n \in 0..MaxRows }
    \cup { [stage |-> "Scan", cols |-> c, n |-> n] :
              c \in ResultColumns, n \in 1..MaxRows }

-----------------------------------------------------------------------------
(* Package ydb: the code of the operations. *)

PropTableName == "usertable"
DatabasePaths == TablePathPrefixes
FieldCounts == {0, 2}

\* uint64(count)
ToUint64(count) == count % (2 ^ IntBits)

\* The callback of execQuery: one ExecContext with the request's query and
\* args; the callback returns the call's error.
execCallback(req, e) ==
    [calls |-> << [method |-> "ExecContext", query |-> req.query,
                   args |-> req.args] >>,
     err |-> e]

\* A variant of ScanRow that gives every column the row's first value.
ScanRowFirst(cols, cells) == [c \in Range(cols) |-> cells[1]]

\* for i, v := range dest { m[cols[i]] = *v.(*[]byte) }
ScanRow(cols, cells) ==
    [c \in Range(cols) |->
        cells[CHOOSE j \in 1..Len(cols) :
                 cols[j] = c /\ \A k \in (j + 1)..Len(cols) : cols[k] # c]]

\* The rows the loop appends: all n, or those before the row Scan fails on.
RowsRead(o) == IF o.stage = "Scan" THEN o.n - 1 ELSE o.n

\* A variant of queryCallback that appends to the rows of the earlier runs.
queryCallbackNoReset(req, vs0, a, o) ==
    [calls |-> << [method |-> "QueryContext", query |-> req.query,
                   args |-> req.args] >>,
     vs |-> IF o.stage \in {"QueryContext", "Columns"} THEN vs0
            ELSE [isNil |-> FALSE,
                  rows |-> vs0.rows \o
                           [i \in 1..RowsRead(o) |->
                               ScanRow(o.cols, ResultRow(a, i, o.cols))]],
     err |-> IF o.stage = "ok" THEN Nil ELSE DriverError]

\* The callback of queryRows, run as attempt a with vs as the earlier runs
\* left it: one QueryContext; vs is reassigned after Columns succeeds.
queryCallback(req, vs0, a, o) ==
    [calls |-> << [method |-> "QueryContext", query |-> req.query,
                   args |-> req.args] >>,
     vs |-> IF o.stage \in {"QueryContext", "Columns"} THEN vs0
            ELSE [isNil |-> FALSE,
                  rows |-> [i \in 1..RowsRead(o) |->
                               ScanRow(o.cols, ResultRow(a, i, o.cols))]],
     err |-> IF o.stage = "ok" THEN Nil ELSE DriverError]

\* A variant of execQuery that logs the error and returns nil.
execQueryLogOnly(err) == Nil

\* execQuery after retry.Do returned err: the error is logged and returned.
execQuery(err) == err

\* queryRows after retry.Do returned err: return vs, err.
queryRows(rows, err) == [rows |-> rows, err |-> err]

NilMap == [isNil |-> TRUE, m |-> <<>>]

\* A variant of ReadReturn that looks at the rows before the error.
ReadReturnRowsFirst(rows, err) ==
    IF Len(rows.rows) = 0 THEN [row |-> NilMap, err |-> err]
    ELSE [row |-> [isNil |-> FALSE, m |-> rows.rows[1]], err |-> err]

\* Read after queryRows returned rows, err.
ReadReturn(rows, err) ==
    IF err # Nil THEN [row |-> NilMap, err |-> err]
    ELSE IF Len(rows.rows) = 0 THEN [row |-> NilMap, err |-> Nil]
    ELSE [row |-> [isNil |-> FALSE, m |-> rows.rows[1]], err |-> Nil]

\* BatchRead and Scan return what queryRows returned.
RowsReturn(rows, err) == [rows |-> rows, err |-> err]

\* The struct Insert and Update bind: YCSB_KEY, then the row's fields in the
\* order the range over the map yields them, their names uppercased.
RowStruct(key, row, order) ==
    StructValue(
        << StructFieldValue(YCSB_KEY, TextValue(key)) >>
        \o [i \in 1..Len(order) |->
               StructFieldValue(ToUpperStr(order[i]), BytesValue(row[order[i]]))])

\* BatchInsert and BatchUpdate: every map's keys are uppercased in place.
UpperKeys(kv) ==
    [K \in {ToUpperStr(k) : k \in DOMAIN kv} |->
        kv[CHOOSE k \in DOMAIN kv : ToUpperStr(k) = K]]

RECURSIVE SetToSeq(_)
SetToSeq(S) ==
    IF S = {} THEN <<>>
    ELSE LET x == CHOOSE x \in S : TRUE IN <<x>> \o SetToSeq(S \ {x})

\* cols: the union of the uppercased column names, sorted.
BatchColumns(values) ==
    SortStrings(SetToSeq(UNION {DOMAIN UpperKeys(values[i]) : i \in DOMAIN values}))

\* A variant of BatchRow that leaves out the columns the row does not have.
BatchRowSkipAbsent(key, row, cols) ==
    StructValue(
        << StructFieldValue(YCSB_KEY, TextValue(key)) >>
        \o [i \in 1..Cardinality({j \in 1..Len(cols) : cols[j] \in DOMAIN row}) |->
               LET c == SelectSeq(cols, LAMBDA x : x \in DOMAIN row)[i] IN
               StructFieldValue(c, NullableBytesValue(FALSE, row[c]))])

\* One row of BatchInsert and BatchUpdate: YCSB_KEY, then every column of
\* cols, with the row's bytes or null.
BatchRow(key, row, cols) ==
    StructValue(
        << StructFieldValue(YCSB_KEY, TextValue(key)) >>
        \o [i \in 1..Len(cols) |->
               IF cols[i] \in DOMAIN row
               THEN StructFieldValue(cols[i], NullableBytesValue(FALSE, row[cols[i]]))
               ELSE StructFieldValue(cols[i], NullableBytesValue(TRUE, ""))])

BatchRows(keys, values) ==
    LET cols == BatchColumns(values) IN
    ListValue([i \in 1..Len(keys) |-> BatchRow(keys[i], UpperKeys(values[i]), cols)])

-----------------------------------------------------------------------------
(* Package ydb: the inputs of the operations. *)

Key(i) == "k" \o Str(Itoa(i))
AKeyLists == {[i \in 1..n |-> Key(i)] : n \in 1..MaxKeys}
AColumns == {NilSlice, Slice(FALSE, << <<"b">>, <<"a">> >>)}
Counts == {-1, 0, MaxRows}

RowA == (<<"a">> :> "x")
RowAB == (<<"a">> :> "y") @@ (<<"B">> :> "z")
ARows == {RowA, RowAB}

\* The values of a batch: one map per key, or one more; the maps alternate
\* between two of ARows.
AValueLists(keys) ==
    {[i \in 1..n |-> two[2 - (i % 2)]] :
        two \in [1..2 -> ARows], n \in Len(keys)..(Len(keys) + 1)}

\* The orders a range over the map m can yield its keys in.
Orders(m) ==
    {o \in [1..Cardinality(DOMAIN m) -> DOMAIN m] : Range(o) = DOMAIN m}

-----------------------------------------------------------------------------
(* Package ydb: the actions. *)

\* The operation op hands the request r to execQuery or queryRows, which
\* invokes retry.Do.
Start(op, kind, in, r) ==
    /\ ~r.panic
    /\ queryCache' = r.cache
    /\ request' = [query |-> r.query, args |-> r.args]
    /\ call' = [op |-> op, kind |-> kind, in |-> in]
    /\ pc' = "running"
    /\ helperCalls' = 1
    /\ attempts' = 0
    /\ driverLog' = <<>>
    /\ cbErr' = "none"
    /\ delivered' = NoDelivery
    /\ vs' = NilRows
    /\ out' = NoOut
    /\ UNCHANGED threadVars

Begin(op, kind, in, r) ==
    /\ pc = "idle"
    /\ ops < MaxOps
    /\ ops' = ops + 1
    /\ Start(op, kind, in, r)
    /\ UNCHANGED <<queryTemplate, ret, connName, databasePath>>

\* ydbCreator.Create: sql.Open or ydb.Unwrap fails, or the database path is
\* taken from the connection and createTable begins.
Create ==
    /\ pc = "new"
    /\ \E path \in DatabasePaths, dropData \in BOOLEAN, fieldCount \in FieldCounts,
          opened \in BOOLEAN :
          IF ~opened
          THEN /\ pc' = "failed"
               /\ out' = [set |-> TRUE, op |-> "Create", err |-> DriverError]
               /\ UNCHANGED <<queryTemplate, queryCache, ret, connName,
                              databasePath, call, request, helperCalls, attempts,
                              driverLog, cbErr, delivered, vs, ops, threadVars>>
          ELSE /\ connName' = path
               /\ databasePath' = path
               /\ IF dropData
                  THEN Start("createTable.DropTable", "exec",
                             [tableName |-> PropTableName, fieldCount |-> fieldCount],
                             DropTable(queryTemplate, queryCache, path, PropTableName))
                  ELSE Start("createTable.CreateTable", "exec",
                             [tableName |-> PropTableName, fieldCount |-> fieldCount],
                             CreateTable(queryTemplate, queryCache, path,
                                         PropTableName, fieldCount))
               /\ UNCHANGED <<queryTemplate, ret, ops>>

DbRead ==
    \E key \in {Key(1)}, columns \in AColumns :
        Begin("Read", "query",
              [tableName |-> PropTableName, key |-> key, columns |-> columns],
              Read(queryTemplate, queryCache, databasePath, PropTableName,
                   columns, key))

DbBatchRead ==
    \E keys \in AKeyLists, columns \in {NilSlice} :
        Begin("BatchRead", "query",
              [tableName |-> PropTableName, keys |-> keys, columns |-> columns],
              BatchRead(queryTemplate, queryCache, databasePath, PropTableName,
                        columns, keys))

DbScan ==
    \E startKey \in {Key(1)}, count \in Counts, columns \in {NilSlice} :
        Begin("Scan", "query",
              [tableName |-> PropTableName, startKey |-> startKey,
               count |-> count, columns |-> columns],
              Scan(queryTemplate, queryCache, databasePath, PropTableName,
                   columns, startKey, ToUint64(count)))

DbUpdate ==
    \E key \in {Key(1)}, row \in ARows :
        \E order \in Orders(row) :
            Begin("Update", "exec",
                  [tableName |-> PropTableName, key |-> key, row |-> row],
                  Update(queryTemplate, queryCache, databasePath, PropTableName,
                         ListValue(<<RowStruct(key, row, order)>>)))

DbInsert ==
    \E key \in {Key(1)}, row \in ARows :
        \E order \in Orders(row) :
            Begin("Insert", "exec",
                  [tableName |-> PropTableName, key |-> key, row |-> row],
                  Insert(queryTemplate, queryCache, databasePath, PropTableName,
                         ListValue(<<RowStruct(key, row, order)>>)))

DbBatchUpdate ==
    \E keys \in AKeyLists :
        \E values \in AValueLists(keys) :
            Begin("BatchUpdate", "exec",
                  [tableName |-> PropTableName, keys |-> keys, values |-> values],
                  BatchUpdate(queryTemplate, queryCache, databasePath,
                              PropTableName, BatchRows(keys, values)))

DbBatchInsert ==
    \E keys \in AKeyLists :
        \E values \in AValueLists(keys) :
            Begin("BatchInsert", "exec",
                  [tableName |-> PropTableName, keys |-> keys, values |-> values],
                  BatchInsert(queryTemplate, queryCache, databasePath,
                              PropTableName, BatchRows(keys, values)))

DbDelete ==
    \E key \in {Key(1)} :
        Begin("Delete", "exec",
              [tableName |-> PropTableName, key |-> key],
              Delete(queryTemplate, queryCache, databasePath, PropTableName, key))

DbBatchDelete ==
    \E keys \in AKeyLists :
        Begin("BatchDelete", "exec",
              [tableName |-> PropTableName, keys |-> keys],
              BatchDelete(queryTemplate, queryCache, databasePath, PropTableName,
                          keys))

\* retry.Do runs the callback of execQuery.
AttemptExec ==
    /\ pc = "running"
    /\ call.kind = "exec"
    /\ cbErr # Nil
    /\ attempts < MaxAttempts
    /\ \E e \in {Nil, DriverError} :
          LET cb == execCallback(request, e) IN
          /\ driverLog' = Append(driverLog, cb.calls)
          /\ cbErr' = cb.err
    /\ attempts' = attempts + 1
    /\ UNCHANGED <<queryTemplate, queryCache, ret, connName, databasePath, pc,
                   call, request, helperCalls, delivered, vs, out, ops,
                   threadVars>>

\* retry.Do runs the callback of queryRows.
AttemptQuery ==
    /\ pc = "running"
    /\ call.kind = "query"
    /\ cbErr # Nil
    /\ attempts < MaxAttempts
    /\ \E o \in Outcomes :
          LET cb == queryCallback(request, vs, attempts + 1, o) IN
          /\ driverLog' = Append(driverLog, cb.calls)
          /\ cbErr' = cb.err
          /\ vs' = cb.vs
          /\ delivered' =
                IF o.stage = "ok"
                THEN [ok |-> TRUE, cols |-> o.cols,
                      rows |-> [i \in 1..o.n |-> ResultRow(attempts + 1, i, o.cols)]]
                ELSE NoDelivery
    /\ attempts' = attempts + 1
    /\ UNCHANGED <<queryTemplate, queryCache, ret, connName, databasePath, pc,
                   call, request, helperCalls, out, ops, threadVars>>

\* What the operation returns once retry.Do has returned doErr.
Result(doErr) ==
    LET res ==
        CASE call.op = "Read" ->
                LET q == queryRows(vs, doErr) IN ReadReturn(q.rows, q.err)
          [] call.op \in {"BatchRead", "Scan"} ->
                LET q == queryRows(vs, doErr) IN RowsReturn(q.rows, q.err)
          [] OTHER -> [err |-> execQuery(doErr)]
    IN  [set |-> TRUE, op |-> call.op, doErr |-> doErr] @@ res

\* retry.Do returns: nil after a callback run that returned nil, else an
\* error (also before any run); the operation returns.  createTable drops
\* the error of DropTable and goes on to CreateTable.
DoReturns ==
    /\ pc = "running"
    /\ \E doErr \in (IF cbErr = Nil THEN {Nil} ELSE Errors) :
          IF call.op = "createTable.DropTable"
          THEN /\ Start("createTable.CreateTable", "exec", call.in,
                        CreateTable(queryTemplate, queryCache, databasePath,
                                    call.in.tableName, call.in.fieldCount))
               /\ UNCHANGED <<queryTemplate, ret, connName, databasePath, ops>>
          ELSE /\ out' = Result(doErr)
               /\ pc' = IF call.op = "createTable.CreateTable" /\ execQuery(doErr) # Nil
                        THEN "failed" ELSE "idle"
               /\ UNCHANGED <<queryTemplate, queryCache, ret, connName,
                              databasePath, call, request, helperCalls, attempts,
                              driverLog, cbErr, delivered, vs, ops, threadVars>>

Next ==
    \/ Create
    \/ DbRead
    \/ DbBatchRead
    \/ DbScan
    \/ DbUpdate
    \/ DbInsert
    \/ DbBatchUpdate
    \/ DbBatchInsert
    \/ DbDelete
    \/ DbBatchDelete
    \/ AttemptExec
    \/ AttemptQuery
    \/ DoReturns

Spec == Init /\ [][Next]_vars

-----------------------------------------------------------------------------
(* Package query called by several harness threads at once.  To the shared *)
(* cache a builder call is two steps: queryCache.Load(key), and after a    *)
(* miss the deferred queryCache.Store(key, s) of the text it rendered.     *)

\* queryCache.Store(key, s): the entry of key is set, whatever it held.
Store(cache, key, s) ==
    [k \in DOMAIN cache \cup {key} |-> IF k = key THEN s ELSE cache[k]]

\* The column lists of the threads' calls.
ThreadColumns ==
    { Slice(FALSE, << <<"a">> >>),
      Slice(FALSE, << <<"a">>, <<"B">> >>),
      Slice(FALSE, << <<"B", " ", "a">> >>) }

ThreadCalls ==
    { [op |-> "Read", tablePathPrefix |-> "/local", tableName |-> "usertable",
       columns |-> c, key |-> k] : c \in ThreadColumns, k \in QKeys }
    \cup { [op |-> "Delete", tablePathPrefix |-> "/local", tableName |-> "usertable",
            key |-> k] : k \in QKeys }

\* The builder call c, up to and including the Load of renderMemo.
BuilderCall(c, cache) ==
    CASE c.op = "Read" ->
            Read(queryTemplate, cache, c.tablePathPrefix, c.tableName, c.columns, c.key)
      [] c.op = "Delete" ->
            Delete(queryTemplate, cache, c.tablePathPrefix, c.tableName, c.key)

ReturnedCall(c, query, args, fromCache) ==
    [call |-> c, query |-> query, args |-> args, fromCache |-> fromCache]

\* Thread t calls a builder: the Load finds the key and the call returns the
\* cached text, or it misses and the thread renders the template.
ThreadLoad(t) ==
    /\ threads[t].pc = "idle"
    /\ calls < MaxCalls
    /\ \E c \in ThreadCalls :
          LET r == BuilderCall(c, queryCache) IN
          /\ ~r.panic
          /\ IF r.fromCache
             THEN /\ returned' = returned \cup {ReturnedCall(c, r.query, r.args, TRUE)}
                  /\ UNCHANGED threads
             ELSE /\ threads' = [threads EXCEPT ![t] =
                                    [pc |-> "missed", call |-> c, key |-> r.key,
                                     query |-> r.query, args |-> r.args]]
                  /\ UNCHANGED returned
    /\ calls' = calls + 1
    /\ UNCHANGED <<queryTemplate, queryCache, ret, adapterVars>>

\* The deferred Store of thread t runs and its call returns.
ThreadStore(t) ==
    /\ threads[t].pc = "missed"
    /\ queryCache' = Store(queryCache, threads[t].key, threads[t].query)
    /\ returned' = returned \cup {ReturnedCall(threads[t].call, threads[t].query,
                                               threads[t].args, FALSE)}
    /\ threads' = [threads EXCEPT ![t] = Idle]
    /\ UNCHANGED <<queryTemplate, ret, adapterVars, calls>>

CacheLoad == \E t \in Threads : ThreadLoad(t)

CacheStore == \E t \in Threads : ThreadStore(t)

NextThreads ==
    \/ CacheLoad
    \/ CacheStore

SpecThreads == Init /\ [][NextThreads]_vars

-----------------------------------------------------------------------------
(* Properties of package ydb, checked under Spec. *)

QueryOps == {"Read", "BatchRead", "Scan"}

AdapterOps ==
    {"Read", "BatchRead", "Scan", "Insert", "BatchInsert", "Update",
     "BatchUpdate", "Delete", "BatchDelete"}

\* An operation of the adapter has returned: out holds what it returned.
HasReturned(opsSet) == pc = "idle" /\ out.set /\ out.op \in opsSet

Last(s) == s[Len(s)]

\* C1: when queryRows succeeds (under Read, BatchRead or Scan) it returns
\* exactly one map per row the driver delivered, in the order delivered; the
\* key set of each map is the set of the result's column names, and every
\* column name is mapped to that row's value for the column.  BatchRead and
\* Scan return these maps, Read the first of them.
C1_RowsAsDelivered ==
    (HasReturned(QueryOps) /\ out.err = Nil) =>
        LET got == queryRows(vs, out.doErr).rows IN
        /\ delivered.ok
        /\ ~got.isNil
        /\ Len(got.rows) = Len(delivered.rows)
        /\ \A i \in 1..Len(got.rows) :
              /\ DOMAIN got.rows[i] = Range(delivered.cols)
              /\ \A j \in 1..Len(delivered.cols) :
                    got.rows[i][delivered.cols[j]] = delivered.rows[i][j]
        /\ (out.op \in {"BatchRead", "Scan"}) => out.rows = got
        /\ (out.op = "Read" /\ Len(got.rows) > 0) => out.row.m = got.rows[1]

\* Scan returned two rows of two columns without error, after a callback run
\* that failed.
C1_Witness ==
    /\ HasReturned({"Scan"})
    /\ out.err = Nil
    /\ attempts = 2
    /\ Len(out.rows.rows) = 2
    /\ Len(delivered.cols) = 2

\* C2: Read returns (nil, nil) when the query succeeds with zero rows, the
\* first row and a nil error when it succeeds with at least one row, and a
\* nil map with the error when it fails; never a non-nil map with a non-nil
\* error.
C2_ReadReturn ==
    HasReturned({"Read"}) =>
        /\ (out.doErr = Nil /\ Len(delivered.rows) = 0) =>
              out.row.isNil /\ out.err = Nil
        /\ (out.doErr = Nil /\ Len(delivered.rows) > 0) =>
              /\ ~out.row.isNil
              /\ out.err = Nil
              /\ DOMAIN out.row.m = Range(delivered.cols)
              /\ \A j \in 1..Len(delivered.cols) :
                    out.row.m[delivered.cols[j]] = delivered.rows[1][j]
        /\ (out.doErr # Nil) => out.row.isNil /\ out.err = out.doErr
        /\ ~(~out.row.isNil /\ out.err # Nil)

\* Read returned an error although a callback run had read rows into vs.
C2_Witness ==
    /\ HasReturned({"Read"})
    /\ out.err # Nil
    /\ Len(vs.rows) > 0
    /\ out.row.isNil

\* C3: an operation of the adapter invokes retry.Do exactly once; every
\* callback run issues exactly one ExecContext or QueryContext call, with
\* the query text and the argument list of the request the operation built;
\* the operation returns the error retry.Do returned, unchanged.
C3_NoRetryOfItsOwn ==
    (pc \in {"running", "idle"} /\ call.op \in AdapterOps) =>
        /\ helperCalls = 1
        /\ Len(driverLog) = attempts
        /\ \A a \in 1..Len(driverLog) :
              /\ Len(driverLog[a]) = 1
              /\ driverLog[a][1].method =
                    (IF call.op \in QueryOps THEN "QueryContext" ELSE "ExecContext")
              /\ driverLog[a][1].query = request.query
              /\ driverLog[a][1].args = request.args
        /\ HasReturned(AdapterOps) =>
              /\ out.op = call.op
              /\ out.err = out.doErr

\* BatchInsert returned an error after as many callback runs as the bound
\* allows, all of them failed.
C3_Witness ==
    /\ HasReturned({"BatchInsert"})
    /\ attempts = MaxAttempts
    /\ cbErr # Nil
    /\ out.err = "err2"

\* C8: the statement of Scan selects the rows with YCSB_KEY > $key and
\* limits them with $limit, and ydbDB.Scan binds $key to the caller's
\* startKey.
C8_ScanAfterStartKey ==
    (pc \in {"running", "idle"} /\ call.op = "Scan") =>
        /\ Last(request.query) =
              "SELECT * FROM " \o call.in.tableName
              \o " WHERE YCSB_KEY > $key LIMIT $limit;"
        /\ {request.args[i].Value :
               i \in {k \in 1..Len(request.args) :
                         request.args[k].Name = <<"k", "e", "y">>}}
              = {[kind |-> "string", v |-> call.in.startKey]}
        /\ \E i \in 1..Len(request.args) :
              request.args[i].Name = <<"l", "i", "m", "i", "t">>

\* Scan handed its request to the driver, which ran the query.
C8_Witness ==
    /\ pc = "running"
    /\ call.op = "Scan"
    /\ call.in.count = MaxRows
    /\ Len(driverLog) = 1

BoundLimits ==
    {request.args[i].Value.v :
        i \in {k \in 1..Len(request.args) : request.args[k].Name = limit_}}

\* C13: for every count ydbDB.Scan is called with, the limit it binds to
\* $limit equals count; the conversion to Uint64 turns no count into a larger
\* limit.
C13_LimitEqualsCount ==
    (pc \in {"running", "idle"} /\ call.op = "Scan") =>
        BoundLimits = {call.in.count}

\* The uppercased column names of all the maps of values.
UpperNames(values) ==
    {ToUpperStr(k) : k \in UNION {DOMAIN values[i] : i \in DOMAIN values}}

\* C14: BatchInsert and BatchUpdate, called with at least as many values as
\* keys, bind one list of exactly len(keys) row structs; row i has YCSB_KEY
\* = keys[i]; every row has the same field sequence: YCSB_KEY, then the
\* union of the uppercased column names of all the maps of values in
\* ascending order; a column the map of row i has carries that map's bytes,
\* a column it lacks is bound as null.
C14_BatchRows ==
    (pc \in {"running", "idle"} /\ call.op \in {"BatchInsert", "BatchUpdate"}) =>
        LET keys == call.in.keys
            values == call.in.values
            names == UpperNames(values)
            list == request.args[1].Value.v
        IN  /\ Len(request.args) = 1
            /\ request.args[1].Name = values_
            /\ Len(list.v) = Len(keys)
            /\ \A i \in 1..Len(keys) :
                  LET f == list.v[i].v IN
                  /\ Len(f) = Cardinality(names) + 1
                  /\ f[1] = [name |-> YCSB_KEY,
                             value |-> [type |-> Utf8, v |-> keys[i]]]
                  /\ {f[j].name : j \in 2..Len(f)} = names
                  /\ \A j \in 2..(Len(f) - 1) : LexLess(f[j].name, f[j + 1].name)
                  /\ \A j \in 2..Len(f) :
                        LET has == {k \in DOMAIN values[i] :
                                       ToUpperStr(k) = f[j].name}
                        IN  /\ f[j].value.type = OptionalOf(String)
                            /\ (has = {}) => f[j].value.v = "NULL"
                            /\ (has # {}) =>
                                  f[j].value.v \in {values[i][k] : k \in has}

\* BatchInsert of one key with two maps is with the driver: the row has the
\* column of its own map and, as null, the column only the second map has.
C14_Witness ==
    /\ pc = "running"
    /\ call.op = "BatchInsert"
    /\ call.in.keys = <<Key(1)>>
    /\ call.in.values = <<RowA, RowAB>>
    /\ request.args[1].Value.v.v[1].v[2].value.v = "x"
    /\ request.args[1].Value.v.v[1].v[3].value.v = "NULL"
    /\ Len(driverLog) = 1

\* C16: when queryRows returns a non-nil error the row slice it returns is
\* nil or empty, so BatchRead and Scan never return rows together with an
\* error; also when a callback run fails after it read rows, and when a
\* later run fails before it reads any row.
C16_NoRowsWithError ==
    (HasReturned({"BatchRead", "Scan"}) /\ out.err # Nil) =>
        /\ queryRows(vs, out.doErr).rows.rows = <<>>
        /\ out.rows.rows = <<>>

\* The values of the map m come from row i of callback run a.
FromRun(m, a, i) == \A c \in DOMAIN m : m[c][1] = a /\ m[c][2] = i

\* C17: when retry.Do runs the callback several times and finally succeeds,
\* the rows returned are exactly those of the last, successful run: as many
\* as that run delivered, row i of the result being row i of that run; no
\* row of an earlier, failed run is kept and none is returned twice.
C17_LastAttemptOnly ==
    (HasReturned(QueryOps) /\ out.doErr = Nil /\ attempts >= 2) =>
        LET got == queryRows(vs, out.doErr).rows.rows IN
        /\ Len(got) = Len(delivered.rows)
        /\ \A i \in 1..Len(got) : FromRun(got[i], attempts, i)
        /\ (out.op \in {"BatchRead", "Scan"}) => out.rows.rows = got
        /\ (out.op = "Read" /\ ~out.row.isNil) => FromRun(out.row.m, attempts, 1)

\* BatchRead returned one row without error after as many callback runs as
\* the bound allows, all but the last of them failed.
C17_Witness ==
    /\ HasReturned({"BatchRead"})
    /\ out.err = Nil
    /\ attempts = MaxAttempts
    /\ Len(out.rows.rows) = 1
    /\ FromRun(out.rows.rows[1], MaxAttempts, 1)

-----------------------------------------------------------------------------
(* Properties of package query, checked under SpecQuery. *)

SelectOps == {"Read", "Scan", "BatchRead"}

BindingOps ==
    {"Read", "Scan", "BatchRead", "Insert", "BatchInsert", "Update",
     "BatchUpdate", "Delete", "BatchDelete"}

\* The tail of the statement of a select builder.
WhereOf(op) ==
    CASE op = "Read" -> " WHERE YCSB_KEY = $key;"
      [] op = "Scan" -> " WHERE YCSB_KEY > $key LIMIT $limit;"
      [] op = "BatchRead" -> " WHERE YCSB_KEY IN $keys;"

\* s is a rearrangement of t.
IsPermutationOf(s, t) ==
    /\ Len(s) = Len(t)
    /\ \E f \in [1..Len(t) -> 1..Len(t)] :
          /\ \A i, j \in 1..Len(t) : i # j => f[i] # f[j]
          /\ \A i \in 1..Len(t) : s[i] = t[f[i]]

\* C4 (as the documentation states it): with no columns the statement
\* selects *; else the select list is the given columns, uppercased and
\* quoted, in ascending order of the uppercased names.
C4_SelectListAscending ==
    (ret.op \in SelectOps) =>
        LET given == ret.in.columns.s
            upper == [i \in 1..Len(given) |-> ToUpperStr(given[i])]
        IN
        \E names \in {ns \in [1..Len(given) -> Range(upper)] :
                         IsPermutationOf(ns, upper) /\ IsSorted(ns)} :
            Last(ret.query) =
                "SELECT "
                \o (IF Len(given) = 0 THEN "*"
                    ELSE Join([i \in 1..Len(names) |-> BQ \o Str(names[i]) \o BQ],
                              ", "))
                \o " FROM " \o ret.in.tableName \o WhereOf(ret.op)

\* The text of the DECLARE clause of a bound argument, as characters.
ClauseOf(arg) ==
    <<"D", "E", "C", "L", "A", "R", "E", " ", "$">> \o arg.Name
    \o <<" ", "A", "S", " ">>
    \o (CASE arg.Value.kind = "string" -> <<"U", "t", "f", "8">>
          [] arg.Value.kind = "uint64" -> <<"U", "i", "n", "t", "6", "4">>
          [] arg.Value.kind = "[]string" ->
                <<"L", "i", "s", "t", "<", "U", "t", "f", "8", ">">>
          [] arg.Value.kind = "types.Value" -> arg.Value.v.type)

\* C5: the query of a builder that binds arguments has, between the PRAGMA
\* line and the statement, exactly one DECLARE clause per argument, with the
\* argument's name and YDB type, in ascending order; as many clauses as
\* Args() has elements.
C5_DeclarePerArgument ==
    (ret.op \in BindingOps) =>
        LET n == Len(ret.args)
            decls == SubSeq(ret.query, 2, Len(ret.query) - 1)
        IN
        /\ n > 0
        /\ Len(ret.query) = n + 2
        /\ ret.query[1] = "PRAGMA TablePathPrefix(\"" \o ret.in.tablePathPrefix \o "\");"
        /\ \E f \in [1..n -> 1..n] :
              /\ \A i, j \in 1..n : i # j => f[i] # f[j]
              /\ \A i \in 1..n : decls[i] = Str(ClauseOf(ret.args[f[i]])) \o ";"
              /\ \A i \in 1..(n - 1) :
                    LexLess(ClauseOf(ret.args[f[i]]), ClauseOf(ret.args[f[i + 1]]))
        /\ (ret.op \in {"Read", "Delete"}) => decls = <<"DECLARE $key AS Utf8;">>
        /\ (ret.op = "Scan") =>
              decls = <<"DECLARE $key AS Utf8;", "DECLARE $limit AS Uint64;">>
        /\ (ret.op \in {"BatchRead", "BatchDelete"}) =>
              decls = <<"DECLARE $keys AS List<Utf8>;">>

\* Scan returned a query with the clauses of its two arguments.
C5_Witness ==
    /\ ret.op = "Scan"
    /\ Len(ret.args) = 2
    /\ Len(ret.query) = 4

Decimal == <<"0", "1", "2", "3", "4", "5", "6", "7", "8", "9">>

RECURSIVE DecimalOf(_)
DecimalOf(i) ==
    IF i < 10 THEN Decimal[i + 1]
    ELSE DecimalOf(i \div 10) \o Decimal[(i % 10) + 1]

OwnTemplate ==
    [Read |-> "read.yql", Scan |-> "scan.yql", BatchRead |-> "batch_read.yql",
     Insert |-> "insert.yql", BatchInsert |-> "batch_insert.yql",
     Update |-> "update.yql", BatchUpdate |-> "batch_update.yql",
     Delete |-> "delete.yql", BatchDelete |-> "batch_delete.yql",
     DropTable |-> "drop_table.yql", CreateTable |-> "create_table.yql"]

SuppliedArgs(op, in) ==
    CASE op = "Scan" ->
            << [Name |-> <<"k", "e", "y">>, Value |-> [kind |-> "string", v |-> in.key]],
               [Name |-> <<"l", "i", "m", "i", "t">>,
                Value |-> [kind |-> "uint64", v |-> in.limit]] >>
      [] op \in {"Read", "Delete"} ->
            << [Name |-> <<"k", "e", "y">>, Value |-> [kind |-> "string", v |-> in.key]] >>
      [] op \in {"BatchRead", "BatchDelete"} ->
            << [Name |-> <<"k", "e", "y", "s">>,
                Value |-> [kind |-> "[]string", v |-> in.keys]] >>
      [] op \in {"Insert", "Update", "BatchInsert", "BatchUpdate"} ->
            << [Name |-> <<"v", "a", "l", "u", "e", "s">>,
                Value |-> [kind |-> "types.Value", v |-> in.values]] >>

\* C12: Args() of the request a builder returns holds the named arguments
\* the builder constructed, in construction order (key then limit for Scan,
\* key for Read and Delete, keys for BatchRead and BatchDelete, values for
\* Insert, Update, BatchInsert and BatchUpdate), each with the value the
\* caller supplied, also when the text came from the render cache.
C12_ArgsAsSupplied ==
    (ret.op \in BindingOps) => Args(ret) = SuppliedArgs(ret.op, ret.in)

\* Scan returned a request whose text came from the cache and whose
\* arguments are the caller's empty key and zero limit.
C12_Witness ==
    /\ ret.op = "Scan"
    /\ ret.fromCache
    /\ ret.in.key = ""
    /\ ret.in.limit = 0
    /\ Len(Args(ret)) = 2

-----------------------------------------------------------------------------
(* Properties of package query under concurrent calls, checked under       *)
(* SpecThreads.                                                            *)

\* What the text of a call may depend on: the builder, the table path
\* prefix, the table name, the column list; and the types of the arguments.
TextInputs(c) == [f \in (DOMAIN c) \ {"key"} |-> c[f]]

ArgTypes(args) == [i \in 1..Len(args) |-> YdbType(args[i].Value)]

\* C11: the query text depends only on the table path prefix, the table
\* name, the column list and the types of the arguments: two calls of the
\* same builder that differ only in the key return the same text.
C11_TextIndependentOfValues ==
    \A a, b \in returned :
        ( /\ a.call # b.call
          /\ TextInputs(a.call) = TextInputs(b.call)
          /\ ArgTypes(a.args) = ArgTypes(b.args) )
        => a.query = b.query

\* C15: calls with the same template and data return the same text, whether
\* they rendered it or read it from the cache; and a text stored under a
\* cache key is never replaced by a different text nor removed.
C15_CacheKeepsText ==
    [][ /\ \A k \in DOMAIN queryCache :
              k \in DOMAIN queryCache' /\ queryCache'[k] = queryCache[k]
        /\ \A a, b \in returned' :
              TextInputs(a.call) = TextInputs(b.call) => a.query = b.query
      ]_vars

====
